---- MODULE Spec2Model ----
(***************************************************************************)
(* UniversalBuilder (src/builder_parallel.py): the build cache             *)
(* (_is_cached, _update_cache, _save_cache_index, clear_cache), the        *)
(* single-toolchain build routines (build_and_run_cpp / _java / _rust /    *)
(* _python) and the mixed dispatcher (build_and_run_mixed, sequential and  *)
(* ThreadPoolExecutor mode).                                               *)
(*                                                                         *)
(* Nine specifications share the variables:                                *)
(*   SpecCache  direct calls of the cache methods, with the file system    *)
(*              changing between calls;                                    *)
(*   SpecBuild  calls of the build routines, one at a time, on Linux and   *)
(*              on Windows with and without vcvars64.bat;                  *)
(*   SpecRebuild  up to three builds in a row with nothing else changing;  *)
(*   SpecFault  the same calls while the cache directory starts to refuse  *)
(*              mkdir, open or write;                                      *)
(*   SpecMixed  one build_and_run_mixed call, its lanes interleaved;       *)
(*   SpecLive   one build_and_run_mixed call under fair scheduling;        *)
(*   SpecShared two builders recording into one cache directory;           *)
(*   SpecLoad   builds after a start on an absent or damaged index.json;   *)
(*   SpecRun    direct calls of _run_command.                              *)
(***************************************************************************)
EXTENDS Integers, Sequences, FiniteSets, TLC

VARIABLES
    content,        \* file system: source file -> contents (Missing = no such file)
    artifacts,      \* file system: existing artifact path -> what it was built from
    cache_enabled,  \* self.cache_enabled
    cache_index,    \* self.cache_index, an insertion-ordered dict: a sequence of entries
    disk,           \* cache_dir and cache_dir / "index.json": [dir, exists, data]
    clock,          \* datetime.now(), advanced by every recording
    lastRec,        \* history: key -> what the latest _update_cache of the key saw
    call,           \* the latest direct call of a cache method and what it returned
    lanes,          \* one build routine activation per language
    mixed,          \* the build_and_run_mixed activation
    built,          \* history: the builds that compiled and ran, [lang, files, exe_name, edits, cleared]
    calls,          \* history: number of cache method calls and builds so far
    edits,          \* history: number of file system changes made from outside
    os_cwd,         \* os.getcwd(): the working directory of the process
    system,         \* self.system = platform.system()
    host,           \* the machine: [vcvars: vcvars64.bat is installed,
                    \*   fault: what the file system refuses in the cache directory]
    peer            \* a second UniversalBuilder on the same cache_dir: [made, cache_index]

vars == <<content, artifacts, cache_enabled, cache_index, disk, clock, lastRec,
          call, lanes, mixed, built, calls, edits, os_cwd, system, host, peer>>

(***************************************************************************)
(* Bounds                                                                  *)
(***************************************************************************)
MaxCalls == 2       \* calls of the cache methods (SpecCache)
MaxBuilds == 2      \* calls of the build routines (SpecBuild)
MaxEdits == 1       \* changes of the file system made from outside
MaxRebuilds == 3    \* calls of the build routines (SpecRebuild)

(***************************************************************************)
(* The files.  A file is named by the rank of its resolved absolute path   *)
(* in lexicographic order: /d1/a.CPP < /d2/b.rs < /d2/c.cc < /d2/d.java    *)
(* < /d2/e.py < /d2/g.txt.                                                 *)
(***************************************************************************)
FileTable == <<[parent |-> "d1", stem |-> "a", suffix |-> ".CPP"],
               [parent |-> "d2", stem |-> "b", suffix |-> ".rs"],
               [parent |-> "d2", stem |-> "c", suffix |-> ".cc"],
               [parent |-> "d2", stem |-> "d", suffix |-> ".java"],
               [parent |-> "d2", stem |-> "e", suffix |-> ".py"],
               [parent |-> "d2", stem |-> "g", suffix |-> ".txt"]>>
Files == DOMAIN FileTable
CacheFiles == {1, 2}            \* the files the cache and build specifications use
Missing == "missing"
Bytes == {"v1", "v2"}           \* two different contents of a file
ExeNames == {"a", "b"}
None == "None"

Parent(f) == FileTable[f].parent
Stem(f) == FileTable[f].stem
Suffix(f) == FileTable[f].suffix

\* Non-empty lists of distinct files of S, at most two long.
FileLists(S) == {<<f>> : f \in S} \cup {<<f, g>> : <<f, g>> \in {p \in S \X S : p[1] # p[2]}}

Range(s) == {s[i] : i \in DOMAIN s}

\* src_paths[0].parent / exe_name
ExePath(F, exe_name) == [dir |-> Parent(F[1]), name |-> exe_name]
ArtPaths == {[dir |-> d, name |-> n] : d \in {"d1", "d2"}, n \in ExeNames}

\* What an artifact was built from: the source list and the contents read.
Snapshot(F) == [i \in DOMAIN F |-> content[F[i]]]
Built(F) == [src |-> F, snap |-> Snapshot(F)]
External == [src |-> <<>>, snap |-> <<>>]      \* put there from outside

(***************************************************************************)
(* Fingerprints                                                            *)
(***************************************************************************)
\* hashlib.sha256: collision free on the modelled data.
Sha256(data) == [sha256 |-> data]

\* Path.exists() of a source file and of an artifact
FileExists(f) == content[f] # Missing
PathExists(p) == p \in DOMAIN artifacts

RECURSIVE Insert(_, _)
Insert(x, s) ==
    IF s = <<>> THEN <<x>>
    ELSE IF x <= Head(s) THEN <<x>> \o s
    ELSE <<Head(s)>> \o Insert(x, Tail(s))

\* A plausible slip: the paths are taken in the order given.
SortedAsGiven(s) == s

\* sorted(file_paths, key=lambda p: str(p.resolve()))
RECURSIVE sorted(_)
sorted(s) == IF s = <<>> THEN <<>> ELSE Insert(Head(s), sorted(Tail(s)))

_compute_file_hash(f) == Sha256(content[f])

\* The updates of combined_hash, over an already sorted list: a missing file
\* raises FileNotFoundError, which is caught, and the loop continues.
RECURSIVE HashUpdates(_)
HashUpdates(s) ==
    IF s = <<>> THEN <<>>
    ELSE (IF FileExists(Head(s)) THEN <<_compute_file_hash(Head(s))>> ELSE <<>>)
         \o HashUpdates(Tail(s))

\* A plausible slip: only the first path is hashed.
HashFirstOnly(file_paths) ==
    Sha256(HashUpdates(SubSeq(sorted(file_paths), 1, 1)))

\* A plausible slip: each update replaces the digest, so that only the last
\* path counts.
HashLastOnly(file_paths) ==
    Sha256(HashUpdates(SubSeq(sorted(file_paths), Len(file_paths), Len(file_paths))))

_compute_files_hash(file_paths) == Sha256(HashUpdates(sorted(file_paths)))

(***************************************************************************)
(* The index: a Python dict, i.e. entries in insertion order               *)
(***************************************************************************)
\* f"{exe_name}::{sorted resolved paths}"
CacheKey(exe_name, file_paths) == [name |-> exe_name, paths |-> sorted(file_paths)]

\* What json.load gives for an index.json that holds JSON other than an
\* object (the text "[]"): a Python list, which __init__ keeps as cache_index
PyList == <<[list |-> <<>>]>>
IsDict(idx) == idx # PyList

\* cache_key in self.cache_index (nothing is in the empty list)
HasKey(idx, k) == IsDict(idx) /\ \E i \in DOMAIN idx : idx[i].key = k
Get(idx, k) == idx[CHOOSE i \in DOMAIN idx : idx[i].key = k]
Keys(idx) == {idx[i].key : i \in DOMAIN idx}

\* d[k] = e: in place when the key is there, appended when it is not
DictSet(idx, e) ==
    IF HasKey(idx, e.key)
    THEN [i \in DOMAIN idx |-> IF idx[i].key = e.key THEN e ELSE idx[i]]
    ELSE Append(idx, e)

(***************************************************************************)
(* index.json as text: "{", one token per entry, "}"; or the text "[]"     *)
(***************************************************************************)
LBrace == [t |-> "{"]
RBrace == [t |-> "}"]
ListTok == [t |-> "[]"]
EntryTok(e) == [t |-> "entry", e |-> e]

\* json.dump(self.cache_index, f, indent=2)
JsonDump(idx) == <<LBrace>> \o [i \in DOMAIN idx |-> EntryTok(idx[i])] \o <<RBrace>>

\* Whether json.load accepts the text
Parseable(data) ==
    \/ /\ Len(data) >= 2
       /\ data[1].t = "{"
       /\ data[Len(data)].t = "}"
       /\ \A i \in 2..(Len(data) - 1) : data[i].t = "entry"
    \/ data = <<ListTok>>

\* json.load of an accepted text: a repeated key keeps its last value
RECURSIVE LoadEntries(_, _)
LoadEntries(toks, idx) ==
    IF toks = <<>> THEN idx
    ELSE LoadEntries(Tail(toks), DictSet(idx, Head(toks).e))
JsonLoad(data) ==
    IF data = <<ListTok>> THEN PyList
    ELSE LoadEntries(SubSeq(data, 2, Len(data) - 1), <<>>)

\* The cache directory without an index.json, and no cache directory
NoFile == [dir |-> TRUE, exists |-> FALSE, data |-> <<>>]
NoDir == [dir |-> FALSE, exists |-> FALSE, data |-> <<>>]

\* cache_dir.mkdir(exist_ok=True)
Mkdir(file) == [file EXCEPT !.dir = TRUE]

\* open(path, 'w'): the file is created or truncated
OpenW(file) == [dir |-> file.dir, exists |-> TRUE, data |-> <<>>]

\* A write of buf at offset 0 through a handle opened before: what lies
\* beyond the written bytes stays.
WriteAt0(file, buf) ==
    [dir |-> file.dir, exists |-> TRUE,
     data |-> buf \o SubSeq(file.data, Len(buf) + 1, Len(file.data))]

\* _load_cache_index: file absent -> {}; json.load raises -> {}
_load_cache_index(file) ==
    IF ~file.exists THEN <<>>
    ELSE IF Parseable(file.data) THEN JsonLoad(file.data)
    ELSE <<>>

\* _save_cache_index run without interruption: mkdir, open, dump, close
_save_cache_index(file, idx) == WriteAt0(OpenW(Mkdir(file)), JsonDump(idx))

(***************************************************************************)
(* The cache methods                                                       *)
(***************************************************************************)
\* A plausible slip: the key is made from the paths as given, not sorted.
IsCachedUnsortedKey(file_paths, exe_name) ==
    /\ cache_enabled
    /\ HasKey(cache_index, [name |-> exe_name, paths |-> file_paths])
    /\ Get(cache_index, [name |-> exe_name, paths |-> file_paths]).hash
           = _compute_files_hash(file_paths)
    /\ PathExists(Get(cache_index, [name |-> exe_name, paths |-> file_paths]).exe_path)

\* A plausible slip: the artifact's existence is not checked.
IsCachedNoExists(file_paths, exe_name) ==
    /\ cache_enabled
    /\ HasKey(cache_index, CacheKey(exe_name, file_paths))
    /\ Get(cache_index, CacheKey(exe_name, file_paths)).hash
           = _compute_files_hash(file_paths)

_is_cached(file_paths, exe_name) ==
    IF ~cache_enabled THEN FALSE
    ELSE LET cache_key == CacheKey(exe_name, file_paths) IN
         IF ~HasKey(cache_index, cache_key) THEN FALSE
         ELSE LET cache_info == Get(cache_index, cache_key)
                  current_hash == _compute_files_hash(file_paths)
              IN  IF cache_info.hash = current_hash
                  THEN (IF PathExists(cache_info.exe_path) THEN TRUE ELSE FALSE)
                  ELSE FALSE

\* The entry _update_cache stores; the key is made from exe_path.name
NewEntry(file_paths, exe_path) ==
    [key       |-> CacheKey(exe_path.name, file_paths),
     hash      |-> _compute_files_hash(file_paths),
     exe_path  |-> exe_path,
     timestamp |-> clock,
     files     |-> file_paths]

\* A plausible slip: the index is rebuilt around the new entry.
IndexAssignFresh(idx, e) == <<e>>

\* A plausible slip: the entry is added without looking for the key.
IndexAssignAppend(idx, e) == Append(idx, e)

\* self.cache_index[cache_key] = {...}
IndexAssign(idx, e) == DictSet(idx, e)

\* What the latest recording of a key saw (history)
Seen(file_paths, exe_path) ==
    [snap    |-> [f \in Range(file_paths) |-> content[f]],
     exe     |-> exe_path,
     cleared |-> FALSE]

NoCall == [op |-> "none"]

\* platform.system()
Systems == {"Linux", "Windows"}

\* What the file system refuses in the cache directory: nothing; mkdir of the
\* directory (it is gone and cannot be made again); open(index.json, 'w');
\* the write of the dumped text
Faults == {"none", "mkdir", "open", "dump"}
SoundHost == [vcvars |-> FALSE, fault |-> "none"]

\* The second builder before it is constructed
NoPeer == [made |-> FALSE, cache_index |-> <<>>]

(***************************************************************************)
(* The build routines.  A lane is one activation of build_and_run_cpp,     *)
(* _java, _rust or _python; pc is its position:                            *)
(*   start       entered, nothing done yet                                 *)
(*   compile     cache miss (or no cache): about to run the compile command*)
(*   record      compiled: about to assign the index entry (_update_cache) *)
(*   save_open / save_dump / save_close   inside _save_cache_index         *)
(*   run         about to run the fresh artifact (or the script)           *)
(*   run_cached  cache hit: about to run the cached artifact               *)
(*   done        returned ret                                              *)
(*   raised      left by an exception                                      *)
(***************************************************************************)
Langs == {"cpp", "java", "rust", "python"}
Caches(lang) == lang \in {"cpp", "rust"}      \* the routines that use the cache

NoPath == [dir |-> "", name |-> ""]
IdleLane ==
    [pc |-> "idle", files |-> <<>>, exe_name |-> None, exe_path |-> NoPath,
     ret |-> FALSE, buf |-> <<>>,
     cmds |-> <<>>,        \* history: the commands run, with their exit codes
     cwds |-> <<>>,        \* history: the cwd argument of each of them
     rec |-> <<>>,         \* history: <<cmds when the index entry was written>>
     fresh |-> FALSE,      \* history: at a hit, the artifact was built from the inputs as they are
     again |-> FALSE,      \* history: a finished build of the same target, nothing changed since
     again_nc |-> FALSE,   \* history: the same, and no clear_cache since
     edits0 |-> 0]         \* history: edits when the routine was entered

(***************************************************************************)
(* build_and_run_mixed.  pc of the activation:                             *)
(*   idle        not called                                                *)
(*   entered     called: about to check and group the files                *)
(*   sequential  in the loop of _build_and_run_mixed_sequential, at group i*)
(*   joining     in _build_and_run_mixed_parallel: the tasks are submitted *)
(*               and as_completed is iterated                              *)
(*   timed_out   as_completed raised TimeoutError: the executor's exit     *)
(*               waits for the tasks                                       *)
(*   report      about to call _print_mixed_results                        *)
(*   returned    returned ret                                              *)
(*   raised      left by an exception                                      *)
(***************************************************************************)
IdleMixed ==
    [pc |-> "idle", input |-> <<>>,
     parallel |-> <<>>,    \* the parallel argument: <<>> for None, <<b>> for the bool b
     parallel_enabled |-> TRUE, max_workers |-> 1,
     mode |-> "none",      \* history: the dispatcher entered, "sequential" or "parallel"
     groups |-> <<>>,      \* files_by_lang, a dict: [lang, files] in insertion order
     grouped |-> FALSE,    \* history: the files were grouped
     results |-> <<>>,     \* results, a dict: [lang, ok] in insertion order
     i |-> 1, ret |-> FALSE,
     timed |-> FALSE,      \* history: as_completed raised TimeoutError
     late |-> {}]          \* history: the lanes unfinished at that moment

\* (".exe" if self.system == "Windows" else "")
ExeSuffix == IF system = "Windows" THEN ".exe" ELSE ""
DefaultExeName(f) == Stem(f) \o ExeSuffix

\* The artifact of a lane: src_paths[0].parent / exe_name, or javac's class file
ArtifactOf(lang, F, exe_name) ==
    IF lang = "java" THEN [dir |-> Parent(F[1]), name |-> Stem(F[1]) \o ".class"]
    ELSE ExePath(F, exe_name)

\* The position after the compile command, by its outcome (ok: exit code 0)
CompileNextAlways(lang, ok) == IF Caches(lang) THEN "record" ELSE "run"

CompileNext(lang, ok) ==
    IF ~ok THEN "done"
    ELSE IF Caches(lang) THEN "record"
    ELSE "run"

\* A plausible slip: the cl command is made without looking for vcvars64.bat.
GetCppBuildCommandUnchecked == IF system = "Windows" THEN "cl" ELSE "g++"

\* _get_cpp_build_command: g++ ..., or on Windows call vcvars64.bat && cl ...,
\* or None when _find_vcvars64 raises FileNotFoundError
_get_cpp_build_command ==
    IF system = "Windows"
    THEN (IF host.vcvars THEN "cl" ELSE None)
    ELSE "g++"

\* The compile command of a routine: javac and rustc are always built
BuildCmd(lang) ==
    CASE lang = "cpp" -> _get_cpp_build_command
      [] lang = "java" -> "javac"
      [] OTHER -> "rustc"

\* The outcomes of subprocess.run(cmd, shell=True, capture_output=True,
\* text=True, timeout=300, cwd=cwd): the process exits with a code, or
\* TimeoutExpired is raised, or another exception is (the cwd is not a
\* directory, the shell cannot be started).
ExitCodes == {0, 1}
Exited(code) == [kind |-> "exit", code |-> code, text |-> ""]
TimeoutExpired == [kind |-> "TimeoutExpired", code |-> 1, text |-> ""]
Raised(e) == [kind |-> "Exception", code |-> 1, text |-> e]
ProcOutcomes ==
    {Exited(c) : c \in ExitCodes} \cup {TimeoutExpired}
        \cup {Raised(e) : e \in {"NotADirectoryError", "PermissionError"}}

TimeoutMessage == "Timeout: il comando ha impiegato piu' di 5 minuti."
ErrorPrefix == "Errore imprevisto durante l'esecuzione: "

\* A plausible slip: the handler of Exception comes first and takes the timeout.
RunCommandOneHandler(cmd, cwd, out) ==
    IF out.kind = "exit" THEN <<out.code, "stdout", "stderr">>
    ELSE <<1, "", ErrorPrefix \o out.text>>

\* _run_command(cmd, cwd): (returncode, stdout, stderr)
_run_command(cmd, cwd, out) ==
    CASE out.kind = "exit" -> <<out.code, "stdout", "stderr">>
      [] out.kind = "TimeoutExpired" -> <<1, "", TimeoutMessage>>
      [] OTHER -> <<1, "", ErrorPrefix \o out.text>>

\* The process's working directory where the build starts
StartDir == "d0"

\* A plausible slip: the routine still enters _work_in_directory(path).
WorkDirChdir(cur, path) == path

\* The working directory of the process across a command of a build routine:
\* the routines pass cwd= to _run_command and no longer enter
\* _work_in_directory, so that os.chdir is never called
WorkDir(cur, path) == cur

\* build_cwd = src_paths[0].parent; _run_cached passes exe_path.parent
CmdCwd(lane, cmd) == IF cmd = "run_cached" THEN lane.exe_path.dir ELSE Parent(lane.files[1])

Ran(l, cmd, code) ==
    [lanes[l] EXCEPT !.cmds = Append(@, [cmd |-> cmd, code |-> code]),
                     !.cwds = Append(@, CmdCwd(lanes[l], cmd))]
HasCmd(lane, cmd, code) == \E i \in DOMAIN lane.cmds : lane.cmds[i] = [cmd |-> cmd, code |-> code]
HasRun(lane, cmd) == \E i \in DOMAIN lane.cmds : lane.cmds[i].cmd = cmd

(***************************************************************************)
(* SpecCache: direct calls of the cache methods                            *)
(***************************************************************************)
\* _update_cache(file_paths, exe_path), run without interruption
UpdateCacheCall(F, exe_name) ==
    /\ calls < MaxCalls
    /\ calls' = calls + 1
    /\ clock' = clock + 1
    /\ LET exe_path == ExePath(F, exe_name)
           e == NewEntry(F, exe_path)
       IN  /\ IF cache_enabled
              THEN /\ cache_index' = IndexAssign(cache_index, e)
                   /\ disk' = _save_cache_index(disk, cache_index')
                   /\ lastRec' = [k \in DOMAIN lastRec \cup {e.key} |->
                                     IF k = e.key THEN Seen(F, exe_path) ELSE lastRec[k]]
              ELSE UNCHANGED <<cache_index, disk, lastRec>>
           /\ call' = [op |-> "update_cache", files |-> F, exe |-> exe_path,
                       key |-> CacheKey(exe_path.name, F),
                       n_before |-> Len(cache_index),
                       again |-> /\ CacheKey(exe_path.name, F) \in DOMAIN lastRec
                                 /\ lastRec[CacheKey(exe_path.name, F)] = Seen(F, exe_path)
                                 /\ HasKey(cache_index, CacheKey(exe_path.name, F))]
    /\ UNCHANGED <<content, artifacts, cache_enabled, lanes, mixed, built, edits, os_cwd,
                   system, host, peer>>

\* _is_cached(file_paths, exe_name)
IsCachedCall(F, exe_name) ==
    /\ calls < MaxCalls
    /\ calls' = calls + 1
    /\ call' = [op |-> "is_cached", files |-> F, name |-> exe_name,
                ret |-> _is_cached(F, exe_name)]
    /\ UNCHANGED <<content, artifacts, cache_enabled, cache_index, disk, clock,
                   lastRec, lanes, mixed, built, edits, os_cwd,
                   system, host, peer>>

\* shutil.rmtree(cache_dir) of an existing directory
Rmtree(file) == NoDir

\* clear_cache(): rmtree(cache_dir), mkdir, cache_index = {}.  Without the
\* directory rmtree raises FileNotFoundError: the handler prints it, and
\* neither mkdir nor the assignment is reached.
clear_cache ==
    /\ \A l \in Langs : lanes[l].pc \in {"idle", "done", "raised"}
    /\ calls < MaxCalls
    /\ calls' = calls + 1
    /\ IF cache_enabled
       THEN /\ disk' = IF disk.dir THEN Mkdir(Rmtree(disk)) ELSE disk
            /\ cache_index' = IF disk.dir THEN <<>> ELSE cache_index
            /\ lastRec' = [k \in DOMAIN lastRec |-> [lastRec[k] EXCEPT !.cleared = TRUE]]
            /\ built' = {[b EXCEPT !.cleared = TRUE] : b \in built}
       ELSE UNCHANGED <<disk, cache_index, lastRec, built>>
    /\ call' = [op |-> "clear_cache"]
    /\ UNCHANGED <<content, artifacts, cache_enabled, clock, lanes, mixed, edits, os_cwd,
                   system, host, peer>>

(***************************************************************************)
(* The file system changing from outside                                   *)
(***************************************************************************)
\* A source file is written, created or deleted
EnvWriteFile(f, c) ==
    /\ edits < MaxEdits
    /\ edits' = edits + 1
    /\ content[f] # c
    /\ content' = [content EXCEPT ![f] = c]
    /\ call' = NoCall
    /\ UNCHANGED <<artifacts, cache_enabled, cache_index, disk, clock, lastRec,
                   lanes, mixed, built, calls, os_cwd,
                   system, host, peer>>

\* The cache directory is removed
EnvRemoveCacheDir ==
    /\ edits < MaxEdits
    /\ edits' = edits + 1
    /\ disk.dir
    /\ disk' = NoDir
    /\ call' = NoCall
    /\ UNCHANGED <<content, artifacts, cache_enabled, cache_index, clock, lastRec,
                   lanes, mixed, built, calls, os_cwd,
                   system, host, peer>>

\* An artifact is deleted
EnvDeleteArtifact(p) ==
    /\ edits < MaxEdits
    /\ edits' = edits + 1
    /\ p \in DOMAIN artifacts
    /\ artifacts' = [q \in DOMAIN artifacts \ {p} |-> artifacts[q]]
    /\ call' = NoCall
    /\ UNCHANGED <<content, cache_enabled, cache_index, disk, clock, lastRec,
                   lanes, mixed, built, calls, os_cwd,
                   system, host, peer>>

\* An artifact is put in place from outside
EnvCreateArtifact(p) ==
    /\ edits < MaxEdits
    /\ edits' = edits + 1
    /\ p \notin DOMAIN artifacts
    /\ artifacts' = [q \in DOMAIN artifacts \cup {p} |->
                        IF q = p THEN External ELSE artifacts[q]]
    /\ call' = NoCall
    /\ UNCHANGED <<content, cache_enabled, cache_index, disk, clock, lastRec,
                   lanes, mixed, built, calls, os_cwd,
                   system, host, peer>>

\* __init__: the index is loaded from index.json when the cache is enabled
InitCache ==
    /\ content = [f \in Files |-> "v1"]
    /\ artifacts \in {[p \in S |-> External] : S \in {{}, ArtPaths}}
    /\ cache_enabled \in BOOLEAN
    /\ disk = NoFile
    /\ cache_index = (IF cache_enabled THEN _load_cache_index(disk) ELSE <<>>)
    /\ clock = 0
    /\ lastRec = <<>>
    /\ call = NoCall
    /\ lanes = [l \in Langs |-> IdleLane]
    /\ mixed = IdleMixed
    /\ built = {}
    /\ calls = 0
    /\ edits = 0
    /\ os_cwd = StartDir
    /\ system = "Linux"
    /\ host = SoundHost
    /\ peer = NoPeer

NextCache ==
    \/ \E F \in FileLists(CacheFiles), n \in ExeNames : UpdateCacheCall(F, n)
    \/ \E F \in FileLists(CacheFiles), n \in ExeNames : IsCachedCall(F, n)
    \/ clear_cache
    \/ \E f \in CacheFiles, c \in Bytes \cup {Missing} : EnvWriteFile(f, c)
    \/ \E p \in ArtPaths : EnvDeleteArtifact(p)
    \/ \E p \in ArtPaths : EnvCreateArtifact(p)
    \/ EnvRemoveCacheDir

SpecCache == InitCache /\ [][NextCache]_vars

(***************************************************************************)
(* The steps of a build routine                                            *)
(***************************************************************************)
\* The lane of a routine just entered
Enter(F, exe_name) ==
    [IdleLane EXCEPT !.pc = "start", !.files = F, !.exe_name = exe_name, !.edits0 = edits]

\* Whether the artifact at path p was built from the files F as they are now
FreshFor(p, F) ==
    /\ PathExists(p)
    /\ Range(artifacts[p].src) = Range(F)
    /\ \A i \in DOMAIN artifacts[p].src : artifacts[p].snap[i] = content[artifacts[p].src[i]]

\* The sources are checked to exist, the names are worked out and the cache is
\* asked: a hit runs the cached artifact, a miss compiles.  build_and_run_java
\* and build_and_run_python do not ask the cache.
LaneCheck(l) ==
    /\ lanes[l].pc = "start"
    /\ LET ln == lanes[l]
           F == ln.files
           name == IF ln.exe_name = None THEN DefaultExeName(F[1]) ELSE ln.exe_name
           path == ArtifactOf(l, F, name)
           prev == {b \in built : b.lang = l /\ b.files = F /\ b.exe_name = name
                                  /\ b.edits = edits}
       IN  IF \E f \in Range(F) : ~FileExists(f)
           THEN lanes' = [lanes EXCEPT ![l] = [ln EXCEPT !.pc = "done", !.ret = FALSE]]
           ELSE lanes' = [lanes EXCEPT ![l] =
                    [ln EXCEPT !.exe_name = name,
                               !.exe_path = path,
                               !.pc = IF l = "python" THEN "run"
                                      ELSE IF Caches(l) /\ _is_cached(F, name) THEN "run_cached"
                                      ELSE "compile",
                               !.fresh = FreshFor(path, F),
                               !.again = prev # {} /\ PathExists(path),
                               !.again_nc = PathExists(path) /\ \E b \in prev : ~b.cleared]]
    /\ UNCHANGED <<content, artifacts, cache_enabled, cache_index, disk, clock,
                   lastRec, call, mixed, built, calls, edits, os_cwd,
                   system, host, peer>>

\* The compile command (_compile_cpp_files, _compile_java_files, rustc): exit
\* code 0 leaves the artifact, built from the sources as they are.  Without a
\* command (_compile_cpp_files: if not build_cmd) the routine returns False.
LaneCompile(l) ==
    /\ lanes[l].pc = "compile"
    /\ IF BuildCmd(l) = None
       THEN /\ lanes' = [lanes EXCEPT ![l] = [lanes[l] EXCEPT !.pc = "done", !.ret = FALSE]]
            /\ UNCHANGED <<artifacts, os_cwd>>
       ELSE /\ \E out \in ProcOutcomes :
                  LET ok == _run_command("compile", CmdCwd(lanes[l], "compile"), out)[1] = 0
                  IN  /\ ok => \A f \in Range(lanes[l].files) : FileExists(f)
                      /\ artifacts' =
                             IF ok
                             THEN [q \in DOMAIN artifacts \cup {lanes[l].exe_path} |->
                                      IF q = lanes[l].exe_path THEN Built(lanes[l].files)
                                      ELSE artifacts[q]]
                             ELSE artifacts
                      /\ lanes' = [lanes EXCEPT ![l] =
                             [Ran(l, "compile", IF ok THEN 0 ELSE 1) EXCEPT
                                  !.pc = CompileNext(l, ok), !.ret = FALSE]]
            /\ os_cwd' = WorkDir(os_cwd, CmdCwd(lanes[l], "compile"))
    /\ UNCHANGED <<content, cache_enabled, cache_index, disk, clock, lastRec,
                   call, mixed, built, calls, edits,
                   system, host, peer>>

\* _update_cache up to the assignment of the entry, which raises TypeError
\* when the index loaded from index.json is not a dict
LaneRecord(l) ==
    /\ lanes[l].pc = "record"
    /\ LET ln == lanes[l]
           e == NewEntry(ln.files, ln.exe_path)
       IN  IF cache_enabled /\ ~IsDict(cache_index)
           THEN \* self.cache_index[cache_key] = ... on a list: TypeError
                /\ lanes' = [lanes EXCEPT ![l] = [ln EXCEPT !.pc = "raised"]]
                /\ UNCHANGED <<cache_index, clock, lastRec>>
           ELSE IF cache_enabled
           THEN /\ cache_index' = IndexAssign(cache_index, e)
                /\ clock' = clock + 1
                /\ lastRec' = [k \in DOMAIN lastRec \cup {e.key} |->
                                  IF k = e.key THEN Seen(ln.files, ln.exe_path)
                                  ELSE lastRec[k]]
                /\ lanes' = [lanes EXCEPT ![l] =
                                [ln EXCEPT !.pc = "save_open", !.rec = <<ln.cmds>>]]
           ELSE /\ lanes' = [lanes EXCEPT ![l] = [ln EXCEPT !.pc = "run"]]
                /\ UNCHANGED <<cache_index, clock, lastRec>>
    /\ UNCHANGED <<content, artifacts, cache_enabled, disk, call, mixed, built,
                   calls, edits, os_cwd,
                   system, host, peer>>

\* _save_cache_index: cache_dir.mkdir(exist_ok=True), outside the try, so that
\* its exception leaves _update_cache and the routine; then, inside the try,
\* open(cache_index_file, 'w'), whose exception is printed
LaneSaveOpen(l) ==
    /\ lanes[l].pc = "save_open"
    /\ IF host.fault = "mkdir" /\ ~disk.dir
       THEN /\ lanes' = [lanes EXCEPT ![l] = [lanes[l] EXCEPT !.pc = "raised"]]
            /\ UNCHANGED disk
       ELSE IF host.fault = "open"
       THEN /\ lanes' = [lanes EXCEPT ![l] = [lanes[l] EXCEPT !.pc = "run"]]
            /\ disk' = Mkdir(disk)
       ELSE /\ lanes' = [lanes EXCEPT ![l] = [lanes[l] EXCEPT !.pc = "save_dump"]]
            /\ disk' = OpenW(Mkdir(disk))
    /\ UNCHANGED <<content, artifacts, cache_enabled, cache_index, clock, lastRec,
                   call, mixed, built, calls, edits, os_cwd,
                   system, host, peer>>

\* _save_cache_index: json.dump into the handle's buffer
LaneSaveDump(l) ==
    /\ lanes[l].pc = "save_dump"
    /\ lanes' = [lanes EXCEPT ![l] =
                    [lanes[l] EXCEPT !.pc = "save_close", !.buf = JsonDump(cache_index)]]
    /\ UNCHANGED <<content, artifacts, cache_enabled, cache_index, disk, clock,
                   lastRec, call, mixed, built, calls, edits, os_cwd,
                   system, host, peer>>

\* _save_cache_index: leaving the with block flushes the buffer and closes; a
\* write that fails raises inside the try and is printed
LaneSaveClose(l) ==
    /\ lanes[l].pc = "save_close"
    /\ disk' = IF host.fault = "dump" THEN disk ELSE WriteAt0(disk, lanes[l].buf)
    /\ lanes' = [lanes EXCEPT ![l] = [lanes[l] EXCEPT !.pc = "run", !.buf = <<>>]]
    /\ UNCHANGED <<content, artifacts, cache_enabled, cache_index, clock, lastRec,
                   call, mixed, built, calls, edits, os_cwd,
                   system, host, peer>>

\* The run command of the fresh artifact (or of the script): ret_code == 0
LaneRun(l) ==
    /\ lanes[l].pc = "run"
    /\ \E out \in ProcOutcomes :
          LET code == _run_command("run", CmdCwd(lanes[l], "run"), out)[1]
          IN  /\ code = 0 => IF l = "python" THEN FileExists(lanes[l].files[1])
                             ELSE PathExists(lanes[l].exe_path)
              /\ lanes' = [lanes EXCEPT ![l] =
                     [Ran(l, "run", code) EXCEPT !.pc = "done", !.ret = (code = 0)]]
    /\ built' = IF l # "python"
                THEN built \cup {[lang |-> l, files |-> lanes[l].files,
                                  exe_name |-> lanes[l].exe_name,
                                  edits |-> lanes[l].edits0, cleared |-> FALSE]}
                ELSE built
    /\ os_cwd' = WorkDir(os_cwd, CmdCwd(lanes[l], "run"))
    /\ UNCHANGED <<content, artifacts, cache_enabled, cache_index, disk, clock,
                   lastRec, call, mixed, calls, edits,
                   system, host, peer>>

\* _run_cached(exe_path)
LaneRunCached(l) ==
    /\ lanes[l].pc = "run_cached"
    /\ \E out \in ProcOutcomes :
          LET code == _run_command("run_cached", CmdCwd(lanes[l], "run_cached"), out)[1]
          IN  /\ code = 0 => PathExists(lanes[l].exe_path)
              /\ lanes' = [lanes EXCEPT ![l] =
                     [Ran(l, "run_cached", code) EXCEPT !.pc = "done", !.ret = (code = 0)]]
    /\ os_cwd' = WorkDir(os_cwd, CmdCwd(lanes[l], "run_cached"))
    /\ UNCHANGED <<content, artifacts, cache_enabled, cache_index, disk, clock,
                   lastRec, call, mixed, built, calls, edits,
                   system, host, peer>>

LaneStep(l) ==
    \/ LaneCheck(l)
    \/ LaneCompile(l)
    \/ LaneRecord(l)
    \/ LaneSaveOpen(l)
    \/ LaneSaveDump(l)
    \/ LaneSaveClose(l)
    \/ LaneRun(l)
    \/ LaneRunCached(l)

(***************************************************************************)
(* SpecBuild: calls of the build routines, one at a time                   *)
(***************************************************************************)
\* build_and_run_cpp(F, exe_name), build_and_run_java(F),
\* build_and_run_rust(F[0], exe_name) is called, as one of at most max calls
CallRoutine(l, F, exe_name, max) ==
    /\ \A k \in Langs : lanes[k].pc \in {"idle", "done", "raised"}
    /\ calls < max
    /\ calls' = calls + 1
    /\ l = "rust" => Len(F) = 1
    /\ l = "java" => exe_name = None
    /\ lanes' = [k \in Langs |-> IF k = l THEN Enter(F, exe_name) ELSE IdleLane]
    /\ UNCHANGED <<content, artifacts, cache_enabled, cache_index, disk, clock,
                   lastRec, call, mixed, built, edits, os_cwd,
                   system, host, peer>>

CallBuild(l, F, exe_name) == CallRoutine(l, F, exe_name, MaxBuilds)

\* An index.json left by an earlier run or edited by hand: it claims the digest
\* /d1/a.CPP has now and the artifact /d1/a
StaleEntry ==
    [key       |-> [name |-> "a", paths |-> <<1>>],
     hash      |-> Sha256(<<Sha256("v1")>>),
     exe_path  |-> [dir |-> "d1", name |-> "a"],
     timestamp |-> 0,
     files     |-> <<1>>]
StaleFile == [dir |-> TRUE, exists |-> TRUE, data |-> JsonDump(<<StaleEntry>>)]

\* An index.json cut short, and one that holds the JSON text "[]"
TornFile == [dir |-> TRUE, exists |-> TRUE, data |-> <<LBrace, EntryTok(StaleEntry)>>]
ListFile == [dir |-> TRUE, exists |-> TRUE, data |-> <<ListTok>>]

InitBuild ==
    /\ content = [f \in Files |-> "v1"]
    /\ artifacts \in {[p \in S |-> External] : S \in {{}, {[dir |-> "d1", name |-> "a"]}}}
    /\ cache_enabled = TRUE
    /\ disk \in {NoFile, StaleFile}
    /\ cache_index = (IF cache_enabled THEN _load_cache_index(disk) ELSE <<>>)
    /\ clock = 0
    /\ lastRec = <<>>
    /\ call = NoCall
    /\ lanes = [l \in Langs |-> IdleLane]
    /\ mixed = IdleMixed
    /\ built = {}
    /\ calls = 0
    /\ edits = 0
    /\ os_cwd = StartDir
    /\ system \in Systems
    /\ host \in {[SoundHost EXCEPT !.vcvars = v] : v \in BOOLEAN}
    /\ host.vcvars => system = "Windows"
    /\ peer = NoPeer

\* The calls made: [routine, source files, exe_name]
BuildCalls ==
    {<<"cpp", <<1>>, None>>, <<"cpp", <<1, 2>>, None>>, <<"cpp", <<1, 2>>, "b">>,
     <<"cpp", <<2, 1>>, "b">>, <<"rust", <<1>>, None>>, <<"java", <<4>>, None>>}

\* The file system changes from outside only where a routine looks at it next:
\* a change during _save_cache_index is a change before the run.
Looking == \A l \in Langs : lanes[l].pc \notin {"save_open", "save_dump", "save_close"}

NextBuild ==
    \/ \E c \in BuildCalls : CallBuild(c[1], c[2], c[3])
    \/ \E l \in Langs : LaneStep(l)
    \/ clear_cache
    \/ \E f \in CacheFiles, c \in Bytes : Looking /\ EnvWriteFile(f, c)
    \/ \E p \in ArtPaths : Looking /\ EnvDeleteArtifact(p)

SpecBuild == InitBuild /\ [][NextBuild]_vars

(***************************************************************************)
(* SpecRebuild: builds through the build routines alone, from an empty     *)
(* cache directory: nothing else touches the index or the artifacts        *)
(***************************************************************************)
\* The calls made: targets that share the artifact path /d1/a
RebuildCalls ==
    {<<"cpp", <<1>>, None>>, <<"cpp", <<1, 2>>, "a">>, <<"cpp", <<1, 3>>, "a">>}

InitRebuild ==
    /\ InitBuild
    /\ system = "Linux"
    /\ artifacts = <<>>
    /\ disk = NoFile

NextRebuild ==
    \/ \E c \in RebuildCalls : CallRoutine(c[1], c[2], c[3], MaxRebuilds)
    \/ \E l \in Langs : LaneStep(l)

SpecRebuild == InitRebuild /\ [][NextRebuild]_vars

(***************************************************************************)
(* SpecFault: builds on a machine whose file system starts to refuse       *)
(* something in the cache directory                                        *)
(***************************************************************************)
\* The cache directory is removed and cannot be made again (kind "mkdir"), or
\* index.json can no longer be opened for writing, or written
EnvFault(kind) ==
    /\ Looking
    /\ host.fault = "none"
    /\ host' = [host EXCEPT !.fault = kind]
    /\ disk' = IF kind = "mkdir" THEN NoDir ELSE disk
    /\ UNCHANGED <<content, artifacts, cache_enabled, cache_index, clock, lastRec,
                   call, lanes, mixed, built, calls, edits, os_cwd, system, peer>>

NextFault ==
    \/ \E c \in BuildCalls : CallBuild(c[1], c[2], c[3])
    \/ \E l \in Langs : LaneStep(l)
    \/ \E kind \in Faults \ {"none"} : EnvFault(kind)

SpecFault == InitBuild /\ [][NextFault]_vars

\* suffix.lower()
Lower(suffix) == IF suffix = ".CPP" THEN ".cpp" ELSE suffix

\* EXTENSION_MAP.get(suffix)
EXTENSION_MAP(suffix) ==
    CASE suffix \in {".cpp", ".cc", ".cxx"} -> "cpp"
      [] suffix = ".java" -> "java"
      [] suffix = ".rs" -> "rust"
      [] suffix = ".py" -> "python"
      [] OTHER -> None

\* A plausible slip: a file of a language already seen starts a group of its own.
GroupAppendNew(groups, lang, f) == Append(groups, [lang |-> lang, files |-> <<f>>])

\* groups[lang].append(file_path) on a defaultdict(list)
GroupAppend(groups, lang, f) ==
    IF \E i \in DOMAIN groups : groups[i].lang = lang
    THEN [i \in DOMAIN groups |->
             IF groups[i].lang = lang
             THEN [groups[i] EXCEPT !.files = Append(@, f)]
             ELSE groups[i]]
    ELSE Append(groups, [lang |-> lang, files |-> <<f>>])

\* The loop of _group_files_by_language: a file of no known language is dropped
RECURSIVE GroupLoop(_, _)
GroupLoop(file_paths, groups) ==
    IF file_paths = <<>> THEN groups
    ELSE LET lang == EXTENSION_MAP(Lower(Suffix(Head(file_paths))))
         IN  GroupLoop(Tail(file_paths),
                       IF lang # None THEN GroupAppend(groups, lang, Head(file_paths))
                       ELSE groups)

_group_files_by_language(file_paths) == GroupLoop(file_paths, <<>>)

\* results[lang] = ok
ResultSet(results, lang, ok) ==
    IF \E i \in DOMAIN results : results[i].lang = lang
    THEN [i \in DOMAIN results |->
             IF results[i].lang = lang THEN [lang |-> lang, ok |-> ok] ELSE results[i]]
    ELSE Append(results, [lang |-> lang, ok |-> ok])

\* A plausible slip: all_success follows the outcome printed last.
PrintMixedLast(results) == results = <<>> \/ results[Len(results)].ok

\* A plausible slip: a report without outcomes does not count as a success.
PrintMixedEmptyFails(results) ==
    results # <<>> /\ \A i \in DOMAIN results : results[i].ok

\* _print_mixed_results: all_success
_print_mixed_results(results) == \A i \in DOMAIN results : results[i].ok

\* The arguments a group's routine is called with: build_and_run_rust takes files[0]
LaneFiles(g) == IF g.lang = "rust" THEN <<g.files[1]>> ELSE g.files

GroupLangs(m) == {m.groups[i].lang : i \in DOMAIN m.groups}
Unfinished == {l \in Langs : lanes[l].pc \notin {"idle", "done", "raised"}}
Running == {l \in Langs : lanes[l].pc \notin {"idle", "queued", "done", "raised"}}

\* The values of the parallel argument: None, True, False
ParallelArgs == {<<>>, <<TRUE>>, <<FALSE>>}

\* A plausible slip: the builder's setting wins over the argument.
UseParallelEnabledFirst(parallel, parallel_enabled) ==
    IF parallel_enabled THEN TRUE
    ELSE IF parallel # <<>> THEN parallel[1] ELSE FALSE

\* use_parallel = parallel if parallel is not None else self.parallel_enabled
UseParallel(parallel, parallel_enabled) ==
    IF parallel # <<>> THEN parallel[1] ELSE parallel_enabled

\* The parameters a routine is entered with, the defaults filled in:
\* exe_name=None, and for build_and_run_rust optimization="release"
Bound(lang, files, exe_name, optimization) ==
    [routine |-> lang, files |-> files, exe_name |-> exe_name,
     optimization |-> IF lang = "rust" THEN optimization ELSE None]

\* _build_and_run_mixed_sequential: routine(files, profile=profile), and
\* build_and_run_rust(files[0], profile=profile)
SeqArgs(g) == Bound(g.lang, LaneFiles(g), None, "release")

\* _build_and_run_mixed_parallel: submit(build_and_run_cpp, files, None, profile),
\* submit(build_and_run_rust, files[0], None, 'release', profile), ...
ParArgs(g) == Bound(g.lang, LaneFiles(g), None, "release")

\* build_and_run_mixed(file_paths, parallel=par) is called on a builder made
\* with parallel_enabled=enabled, max_workers=workers
MixedCall(input, par, enabled, workers) ==
    /\ mixed.pc = "idle"
    /\ mixed' = [IdleMixed EXCEPT !.pc = "entered", !.input = input,
                                  !.parallel = par, !.parallel_enabled = enabled,
                                  !.max_workers = workers]
    /\ UNCHANGED <<content, artifacts, cache_enabled, cache_index, disk, clock,
                   lastRec, call, lanes, built, calls, edits, os_cwd,
                   system, host, peer>>

\* The files are checked to exist and grouped, the mode is chosen, and in
\* parallel mode one task per group is submitted
MixedGroup ==
    /\ mixed.pc = "entered"
    /\ IF \E f \in Range(mixed.input) : ~FileExists(f)
       THEN /\ mixed' = [mixed EXCEPT !.pc = "returned", !.ret = FALSE]
            /\ UNCHANGED lanes
       ELSE LET files_by_lang == _group_files_by_language(mixed.input)
                use_parallel == UseParallel(mixed.parallel, mixed.parallel_enabled)
                concurrent == use_parallel /\ Len(files_by_lang) > 1
            IN  /\ mixed' = [mixed EXCEPT
                        !.groups = files_by_lang,
                        !.grouped = TRUE,
                        !.mode = IF concurrent THEN "parallel" ELSE "sequential",
                        !.pc = IF concurrent THEN "joining" ELSE "sequential"]
                /\ lanes' = IF concurrent
                            THEN [l \in Langs |->
                                    IF \E i \in DOMAIN files_by_lang : files_by_lang[i].lang = l
                                    THEN [IdleLane EXCEPT !.pc = "queued"]
                                    ELSE lanes[l]]
                            ELSE lanes
    /\ UNCHANGED <<content, artifacts, cache_enabled, cache_index, disk, clock,
                   lastRec, call, built, calls, edits, os_cwd,
                   system, host, peer>>

\* Sequential mode: the routine of group i is called
MixedSeqCall ==
    /\ mixed.pc = "sequential"
    /\ mixed.i <= Len(mixed.groups)
    /\ LET g == mixed.groups[mixed.i]
       IN  /\ lanes[g.lang].pc = "idle"
           /\ lanes' = [lanes EXCEPT ![g.lang] = Enter(SeqArgs(g).files, SeqArgs(g).exe_name)]
    /\ UNCHANGED <<content, artifacts, cache_enabled, cache_index, disk, clock,
                   lastRec, call, mixed, built, calls, edits, os_cwd,
                   system, host, peer>>

\* Sequential mode: the routine of group i returned
MixedSeqReturn ==
    /\ mixed.pc = "sequential"
    /\ mixed.i <= Len(mixed.groups)
    /\ LET g == mixed.groups[mixed.i]
       IN  /\ lanes[g.lang].pc = "done"
           /\ mixed' = [mixed EXCEPT
                   !.results = ResultSet(@, g.lang, lanes[g.lang].ret),
                   !.i = @ + 1]
    /\ UNCHANGED <<content, artifacts, cache_enabled, cache_index, disk, clock,
                   lastRec, call, lanes, built, calls, edits, os_cwd,
                   system, host, peer>>

\* Sequential mode: the routine of group i raised; nothing in the loop catches
\* it and the exception leaves build_and_run_mixed
MixedSeqRaise ==
    /\ mixed.pc = "sequential"
    /\ mixed.i <= Len(mixed.groups)
    /\ lanes[mixed.groups[mixed.i].lang].pc = "raised"
    /\ mixed' = [mixed EXCEPT !.pc = "raised"]
    /\ UNCHANGED <<content, artifacts, cache_enabled, cache_index, disk, clock,
                   lastRec, call, lanes, built, calls, edits, os_cwd,
                   system, host, peer>>

\* Sequential mode: the loop is over
MixedSeqEnd ==
    /\ mixed.pc = "sequential"
    /\ mixed.i > Len(mixed.groups)
    /\ mixed' = [mixed EXCEPT !.pc = "report"]
    /\ UNCHANGED <<content, artifacts, cache_enabled, cache_index, disk, clock,
                   lastRec, call, lanes, built, calls, edits, os_cwd,
                   system, host, peer>>

\* Parallel mode: a worker of the pool takes the next submitted task
TaskBegin(l) ==
    /\ mixed.pc \in {"joining", "timed_out"}
    /\ lanes[l].pc = "queued"
    /\ Cardinality(Running) < mixed.max_workers
    /\ \E i \in DOMAIN mixed.groups :
          /\ mixed.groups[i].lang = l
          /\ \A j \in 1..(i - 1) : lanes[mixed.groups[j].lang].pc # "queued"
          /\ lanes' = [lanes EXCEPT ![l] =
                 Enter(ParArgs(mixed.groups[i]).files, ParArgs(mixed.groups[i]).exe_name)]
    /\ UNCHANGED <<content, artifacts, cache_enabled, cache_index, disk, clock,
                   lastRec, call, mixed, built, calls, edits, os_cwd,
                   system, host, peer>>

\* Parallel mode: future.result() of a finished task, inside try/except
\* Exception: results[lang] = result, or False when the task raised
FutureOutcome(lane) == IF lane.pc = "raised" THEN FALSE ELSE lane.ret

\* Parallel mode: as_completed yields a finished future
MixedCollect(l) ==
    /\ mixed.pc = "joining"
    /\ lanes[l].pc \in {"done", "raised"}
    /\ l \in GroupLangs(mixed)
    /\ ~\E i \in DOMAIN mixed.results : mixed.results[i].lang = l
    /\ mixed' = [mixed EXCEPT !.results = ResultSet(@, l, FutureOutcome(lanes[l]))]
    /\ UNCHANGED <<content, artifacts, cache_enabled, cache_index, disk, clock,
                   lastRec, call, lanes, built, calls, edits, os_cwd,
                   system, host, peer>>

\* Parallel mode: every future was yielded; the executor's exit has nothing to wait for
MixedJoined ==
    /\ mixed.pc = "joining"
    /\ \A l \in GroupLangs(mixed) : \E i \in DOMAIN mixed.results : mixed.results[i].lang = l
    /\ mixed' = [mixed EXCEPT !.pc = "report"]
    /\ UNCHANGED <<content, artifacts, cache_enabled, cache_index, disk, clock,
                   lastRec, call, lanes, built, calls, edits, os_cwd,
                   system, host, peer>>

\* Parallel mode: 600 s have passed with a future pending: as_completed raises
\* TimeoutError, which nothing catches
MixedTimeout ==
    /\ mixed.pc = "joining"
    /\ Unfinished # {}
    /\ mixed' = [mixed EXCEPT !.pc = "timed_out", !.timed = TRUE, !.late = Unfinished]
    /\ UNCHANGED <<content, artifacts, cache_enabled, cache_index, disk, clock,
                   lastRec, call, lanes, built, calls, edits, os_cwd,
                   system, host, peer>>

\* Parallel mode: the executor's exit (shutdown(wait=True)) has seen every task
\* end, and the exception leaves build_and_run_mixed
MixedRaise ==
    /\ mixed.pc = "timed_out"
    /\ Unfinished = {}
    /\ mixed' = [mixed EXCEPT !.pc = "raised"]
    /\ UNCHANGED <<content, artifacts, cache_enabled, cache_index, disk, clock,
                   lastRec, call, lanes, built, calls, edits, os_cwd,
                   system, host, peer>>

\* return self._print_mixed_results(results)
MixedReport ==
    /\ mixed.pc = "report"
    /\ mixed' = [mixed EXCEPT !.pc = "returned", !.ret = _print_mixed_results(mixed.results)]
    /\ UNCHANGED <<content, artifacts, cache_enabled, cache_index, disk, clock,
                   lastRec, call, lanes, built, calls, edits, os_cwd,
                   system, host, peer>>

\* The file lists build_and_run_mixed is called with
MixedInputs ==
    {<<1>>, <<1, 3>>, <<1, 2>>, <<2, 1>>, <<1, 6, 5>>, <<1, 2, 3>>, <<4, 5>>,
     <<2, 4, 1>>, <<1, 2, 5>>, <<6>>, <<5, 4, 2, 1>>, <<>>}
WorkerCounts == {1, 2}

InitMixed ==
    /\ content \in {[f \in Files |-> "v1"],
                    [f \in Files |-> IF f = 5 THEN Missing ELSE "v1"]}
    /\ artifacts \in {[p \in S |-> External] : S \in {{}, {[dir |-> "d1", name |-> "a"]}}}
    /\ cache_enabled = TRUE
    /\ disk \in {NoFile, StaleFile, ListFile}
    /\ cache_index = (IF cache_enabled THEN _load_cache_index(disk) ELSE <<>>)
    /\ clock = 0
    /\ lastRec = <<>>
    /\ call = NoCall
    /\ lanes = [l \in Langs |-> IdleLane]
    /\ mixed = IdleMixed
    /\ built = {}
    /\ calls = 0
    /\ edits = 0
    /\ os_cwd = StartDir
    /\ system = "Linux"
    /\ host = SoundHost
    /\ peer = NoPeer

NextMixed ==
    \/ \E input \in MixedInputs, par \in ParallelArgs, enabled \in BOOLEAN, w \in WorkerCounts :
          MixedCall(input, par, enabled, w)
    \/ MixedGroup
    \/ MixedSeqCall
    \/ MixedSeqReturn
    \/ MixedSeqRaise
    \/ MixedSeqEnd
    \/ \E l \in Langs : TaskBegin(l)
    \/ \E l \in Langs : LaneStep(l)
    \/ \E l \in Langs : MixedCollect(l)
    \/ MixedJoined
    \/ MixedTimeout
    \/ MixedRaise
    \/ MixedReport

SpecMixed == InitMixed /\ [][NextMixed]_vars

(***************************************************************************)
(* SpecLive: one build_and_run_mixed call under fair scheduling.  Every    *)
(* subprocess exits or is cut off by the timeout of _run_command, so a     *)
(* routine under way takes its next step; a free worker of the pool takes  *)
(* the next submitted task; the dispatcher's own thread goes on whenever   *)
(* it can.  Whether the 600 s of as_completed elapse first is left open.   *)
(***************************************************************************)
LiveInputs == {<<1>>, <<1, 2>>, <<4, 5>>, <<2, 4, 1>>}

InitLive ==
    /\ InitMixed
    /\ content = [f \in Files |-> "v1"]
    /\ disk = StaleFile <=> artifacts # <<>>

NextLive ==
    \/ \E input \in LiveInputs, par \in ParallelArgs, enabled \in BOOLEAN, w \in WorkerCounts :
          MixedCall(input, par, enabled, w)
    \/ MixedGroup
    \/ MixedSeqCall
    \/ MixedSeqReturn
    \/ MixedSeqRaise
    \/ MixedSeqEnd
    \/ \E l \in Langs : TaskBegin(l)
    \/ \E l \in Langs : LaneStep(l)
    \/ \E l \in Langs : MixedCollect(l)
    \/ MixedJoined
    \/ MixedTimeout
    \/ MixedRaise
    \/ MixedReport

Fairness ==
    /\ WF_vars(MixedGroup)
    /\ WF_vars(MixedSeqCall)
    /\ WF_vars(MixedSeqReturn)
    /\ WF_vars(MixedSeqRaise)
    /\ WF_vars(MixedSeqEnd)
    /\ WF_vars(MixedJoined)
    /\ WF_vars(MixedRaise)
    /\ WF_vars(MixedReport)
    /\ \A l \in Langs :
          /\ WF_vars(TaskBegin(l))
          /\ WF_vars(LaneStep(l))
          /\ WF_vars(MixedCollect(l))

SpecLive == InitLive /\ [][NextLive]_vars /\ Fairness

(***************************************************************************)
(* SpecLoad: a builder started on a cache directory whose index.json is    *)
(* absent, cut short or not a JSON object, and then asked to build         *)
(***************************************************************************)
InitLoad ==
    /\ content = [f \in Files |-> "v1"]
    /\ artifacts \in {[p \in S |-> External] : S \in {{}, {[dir |-> "d1", name |-> "a"]}}}
    /\ cache_enabled = TRUE
    /\ disk \in {NoFile, TornFile, ListFile}
    /\ cache_index = _load_cache_index(disk)
    /\ clock = 0
    /\ lastRec = <<>>
    /\ call = NoCall
    /\ lanes = [l \in Langs |-> IdleLane]
    /\ mixed = IdleMixed
    /\ built = {}
    /\ calls = 0
    /\ edits = 0
    /\ os_cwd = StartDir
    /\ system = "Linux"
    /\ host = SoundHost
    /\ peer = NoPeer

NextLoad ==
    \/ \E c \in BuildCalls : CallBuild(c[1], c[2], c[3])
    \/ \E l \in Langs : LaneStep(l)

SpecLoad == InitLoad /\ [][NextLoad]_vars

(***************************************************************************)
(* SpecShared: two builders constructed on one cache directory, each       *)
(* recording into the index it holds in memory                             *)
(***************************************************************************)
\* The second UniversalBuilder(cache_dir=...) is constructed: mkdir, then
\* _load_cache_index
PeerInit ==
    /\ ~peer.made
    /\ disk' = Mkdir(disk)
    /\ peer' = [made |-> TRUE, cache_index |-> _load_cache_index(disk')]
    /\ UNCHANGED <<content, artifacts, cache_enabled, cache_index, clock, lastRec,
                   call, lanes, mixed, built, calls, edits, os_cwd, system, host>>

\* _update_cache(F, exe_path) of builder b (1: this builder, 2: the second),
\* run without interruption: the entry goes into b's own cache_index, which
\* _save_cache_index then writes over index.json
SharedRecord(b, F, exe_name) ==
    /\ calls < MaxCalls
    /\ calls' = calls + 1
    /\ clock' = clock + 1
    /\ b = 2 => peer.made
    /\ LET e == NewEntry(F, ExePath(F, exe_name))
           idx == IndexAssign(IF b = 1 THEN cache_index ELSE peer.cache_index, e)
       IN  /\ cache_index' = IF b = 1 THEN idx ELSE cache_index
           /\ peer' = IF b = 2 THEN [peer EXCEPT !.cache_index = idx] ELSE peer
           /\ disk' = _save_cache_index(disk, idx)
           /\ call' = [op |-> "record", builder |-> b, key |-> e.key,
                       before |-> IF call.op = "record"
                                  THEN <<[builder |-> call.builder, key |-> call.key]>>
                                  ELSE <<>>]
    /\ UNCHANGED <<content, artifacts, cache_enabled, lastRec, lanes, mixed, built,
                   edits, os_cwd, system, host>>

InitShared ==
    /\ content = [f \in Files |-> "v1"]
    /\ artifacts = <<>>
    /\ cache_enabled = TRUE
    /\ disk \in {NoFile, StaleFile}
    /\ cache_index = _load_cache_index(disk)
    /\ clock = 0
    /\ lastRec = <<>>
    /\ call = NoCall
    /\ lanes = [l \in Langs |-> IdleLane]
    /\ mixed = IdleMixed
    /\ built = {}
    /\ calls = 0
    /\ edits = 0
    /\ os_cwd = StartDir
    /\ system = "Linux"
    /\ host = SoundHost
    /\ peer = NoPeer

NextShared ==
    \/ PeerInit
    \/ \E b \in {1, 2}, F \in FileLists(CacheFiles), n \in ExeNames : SharedRecord(b, F, n)

SpecShared == InitShared /\ [][NextShared]_vars

(***************************************************************************)
(* SpecRun: direct calls of _run_command                                   *)
(***************************************************************************)
\* The command lines the build routines make, and the cwd arguments
Commands == {"g++", "javac", "rustc", "java", "./exe", "python"}
CwdArgs == {"d1", "d2", None}

\* _run_command(cmd, cwd) is called and subprocess.run ends as out
RunCommandCall(cmd, cwd, out) ==
    /\ calls < MaxCalls
    /\ calls' = calls + 1
    /\ call' = [op |-> "run_command", cmd |-> cmd, cwd |-> cwd, out |-> out,
                ret |-> _run_command(cmd, cwd, out)]
    /\ UNCHANGED <<content, artifacts, cache_enabled, cache_index, disk, clock,
                   lastRec, lanes, mixed, built, edits, os_cwd,
                   system, host, peer>>

InitRun ==
    /\ content = [f \in Files |-> "v1"]
    /\ artifacts = <<>>
    /\ cache_enabled = TRUE
    /\ disk = NoFile
    /\ cache_index = _load_cache_index(disk)
    /\ clock = 0
    /\ lastRec = <<>>
    /\ call = NoCall
    /\ lanes = [l \in Langs |-> IdleLane]
    /\ mixed = IdleMixed
    /\ built = {}
    /\ calls = 0
    /\ edits = 0
    /\ os_cwd = StartDir
    /\ system = "Linux"
    /\ host = SoundHost
    /\ peer = NoPeer

NextRun ==
    \E cmd \in Commands, cwd \in CwdArgs, out \in ProcOutcomes : RunCommandCall(cmd, cwd, out)

SpecRun == InitRun /\ [][NextRun]_vars

(***************************************************************************)
(* Claims checked under SpecBuild                                          *)
(***************************************************************************)
\* C2: whatever the index holds (stale, edited by hand), a build that takes the
\* cache-hit path uses an artifact that was built from the current contents of
\* the key's input files.
C2_NoWrongHit ==
    \A l \in Langs : lanes[l].pc = "run_cached" => lanes[l].fresh

FailedCompileEnds(ln) ==
    /\ HasCmd(ln, "compile", 1)
          => /\ ln.pc = "done"
             /\ ~ln.ret
             /\ ln.cmds = <<[cmd |-> "compile", code |-> 1]>>
             /\ ln.rec = <<>>
    /\ (ln.pc = "done" /\ ln.cmds = <<>>)
          => ~ln.ret /\ ln.rec = <<>>

\* C26 as stated: within a lane the artifact is run only after the lane's
\* compile command has exited with 0; when the compile fails or no compile
\* command can be built the lane reports failure without running the artifact
\* and without changing the index.
C26_AsStated ==
    \A l \in Langs \ {"python"} :
        LET ln == lanes[l]
        IN  /\ \A i \in DOMAIN ln.cmds :
                  ln.cmds[i].cmd \in {"run", "run_cached"}
                     => \E j \in 1..(i - 1) : ln.cmds[j] = [cmd |-> "compile", code |-> 0]
            /\ FailedCompileEnds(ln)

\* C26 amended: in a lane that does not take the cache-hit path the artifact
\* is run only after the lane's compile command has exited with 0, the run
\* coming right after the compile; a cache hit runs the recorded artifact
\* through _run_cached with no compile command in the lane; when the compile
\* fails or no compile command can be built the lane reports failure without
\* running the artifact and without changing the index.
C26_CompilePrecedesRun ==
    \A l \in Langs \ {"python"} :
        LET ln == lanes[l]
        IN  /\ \A i \in DOMAIN ln.cmds :
                  /\ ln.cmds[i].cmd = "run"
                        => i > 1 /\ ln.cmds[i - 1] = [cmd |-> "compile", code |-> 0]
                  /\ ln.cmds[i].cmd = "run_cached" => Len(ln.cmds) = 1
            /\ ln.pc \in {"record", "save_open", "save_dump", "save_close", "run"}
                  => ln.cmds = <<[cmd |-> "compile", code |-> 0]>>
            /\ ln.rec # <<>> => HasCmd(ln, "compile", 0)
            /\ FailedCompileEnds(ln)

\* C26 witness: a C++ build whose compile command failed has returned, and the
\* index holds no record of its key
C26_Witness ==
    /\ lanes["cpp"].pc = "done"
    /\ lanes["cpp"].cmds = <<[cmd |-> "compile", code |-> 1]>>
    /\ ~lanes["cpp"].ret
    /\ ~HasKey(cache_index, CacheKey(lanes["cpp"].exe_path.name, lanes["cpp"].files))

\* The record of key k is not the same before and after the step
RecordChanges(k) ==
    \/ HasKey(cache_index, k) # HasKey(cache_index', k)
    \/ /\ HasKey(cache_index, k)
       /\ HasKey(cache_index', k)
       /\ Get(cache_index, k) # Get(cache_index', k)

C29_NoCommandNoBuild ==
    (system = "Windows" /\ ~host.vcvars)
    => LET ln == lanes["cpp"]
       IN  /\ \A i \in DOMAIN ln.cmds : ln.cmds[i].cmd = "run_cached"
           /\ ln.rec = <<>>
           /\ ln.pc \in {"idle", "start", "compile", "run_cached", "done"}
           /\ (ln.pc = "done" /\ ln.cmds = <<>>) => ~ln.ret

\* C29 witness: on Windows without vcvars64.bat a C++ build whose sources
\* exist and which missed the cache has returned False without any process
C29_Witness ==
    /\ system = "Windows"
    /\ ~host.vcvars
    /\ lanes["cpp"].pc = "done"
    /\ lanes["cpp"].exe_path # NoPath
    /\ lanes["cpp"].cmds = <<>>
    /\ ~lanes["cpp"].ret

\* C31: on a cache hit the artifact executed is the one at the path stored in
\* the key's record, whose existence _is_cached checked: a build about to run
\* _run_cached runs the recorded path, in the recorded directory, in whatever
\* order the input files were passed.
C31_HitRunsRecordedPath ==
    \A l \in Langs :
        lanes[l].pc = "run_cached"
           => LET cache_key == CacheKey(lanes[l].exe_name, lanes[l].files)
              IN  /\ HasKey(cache_index, cache_key)
                  /\ lanes[l].exe_path = Get(cache_index, cache_key).exe_path
                  /\ CmdCwd(lanes[l], "run_cached") = Get(cache_index, cache_key).exe_path.dir

(***************************************************************************)
(* Claims checked under SpecMixed                                          *)
(***************************************************************************)
\* The lanes whose _update_cache has returned, and the key each recorded
Recorded == {l \in Langs : lanes[l].rec # <<>> /\ lanes[l].pc \in {"run", "done"}}
RecordedKey(l) == CacheKey(lanes[l].exe_path.name, lanes[l].files)

\* C3: once two lanes of one build_and_run_mixed call have both returned from
\* _update_cache, whatever the interleaving of their steps, the index in memory
\* and the index file both hold both records: no lost update, no torn file.
C3_BothRecordsKept ==
    (mixed.pc \in {"joining", "timed_out", "report", "returned", "raised"}
        /\ Cardinality(Recorded) >= 2)
    => /\ \A l \in Recorded : HasKey(cache_index, RecordedKey(l))
       /\ disk.exists
       /\ Parseable(disk.data)
       /\ \A l \in Recorded : HasKey(JsonLoad(disk.data), RecordedKey(l))

\* The call has ended, by a return or by an exception, after grouping the files
MixedEnded == mixed.pc \in {"returned", "raised"} /\ mixed.grouped

\* C4: a build_and_run_mixed call over G >= 1 groups ends with a report that
\* holds exactly one outcome per group, none dropped and none duplicated, in
\* sequential and in parallel mode, whatever the order and timing of the lanes.
C4_OneOutcomePerGroup ==
    (MixedEnded /\ Len(mixed.groups) >= 1)
    => /\ mixed.pc = "returned"
       /\ Len(mixed.results) = Len(mixed.groups)
       /\ \A i \in DOMAIN mixed.groups :
             Cardinality({j \in DOMAIN mixed.results :
                             mixed.results[j].lang = mixed.groups[i].lang}) = 1

\* The commands of a lane all exited with 0
AllZero(l) == \A i \in DOMAIN lanes[l].cmds : lanes[l].cmds[i].code = 0

\* C5: lane isolation: when a call over several groups has ended and a command
\* of one group exited non-zero, every group was built and run to completion,
\* each group's outcome is true exactly when its commands all exited 0, and
\* the overall result is false.
C5_LaneIsolation ==
    (/\ MixedEnded
     /\ Len(mixed.groups) >= 2
     /\ \E l \in GroupLangs(mixed) : ~AllZero(l))
    => /\ mixed.pc = "returned"
       /\ mixed.ret = FALSE
       /\ \A l \in GroupLangs(mixed) :
             /\ lanes[l].pc = "done"
             /\ \E j \in DOMAIN mixed.results :
                   /\ mixed.results[j].lang = l
                   /\ mixed.results[j].ok = AllZero(l)

\* C13: the result build_and_run_mixed returns with its report is the logical
\* AND of the outcomes in the report: true exactly when every outcome is true.
C13_OverallIsAnd ==
    (mixed.pc = "returned" /\ mixed.grouped)
    => (mixed.ret <=> \A i \in DOMAIN mixed.results : mixed.results[i].ok)

\* C13 witness: a report of several outcomes, a failed one before a successful
\* one, was returned with the overall result false.
C13_Witness ==
    /\ mixed.pc = "returned"
    /\ mixed.grouped
    /\ Len(mixed.results) >= 2
    /\ ~mixed.results[1].ok
    /\ mixed.results[Len(mixed.results)].ok
    /\ ~mixed.ret

\* C14: in every state of a sequential or concurrent build the working
\* directory of the process is the one it started with, and every command a
\* lane has run was given the lane's own directory (the parent of its first
\* source file) as its cwd argument.
C14_NoGlobalChdir ==
    /\ os_cwd = StartDir
    /\ \A l \in Langs : \A i \in DOMAIN lanes[l].cwds :
          /\ lanes[l].cwds[i] # None
          /\ lanes[l].cwds[i] = Parent(lanes[l].files[1])

\* C14 witness: in a concurrent build two lanes have run commands, each in a
\* directory of its own, and the process is where it started.
C14_Witness ==
    /\ mixed.pc = "joining"
    /\ \E k \in Langs, l \in Langs :
          /\ lanes[k].cwds # <<>>
          /\ lanes[l].cwds # <<>>
          /\ lanes[k].cwds[1] # lanes[l].cwds[1]
    /\ os_cwd = StartDir

\* A lane is inside _update_cache
Recording == {l \in Langs : lanes[l].pc \in {"save_open", "save_dump", "save_close"}}

\* C16: with the cache enabled, once _update_cache has returned (and no other
\* call of it is under way) index.json holds exactly the index in memory: a
\* builder started on the same cache directory loads the same records.
C16_PersistedIsMemory ==
    (cache_enabled /\ Recorded # {} /\ Recording = {})
    => /\ disk.exists
       /\ Parseable(disk.data)
       /\ _load_cache_index(disk) = cache_index

\* C19: when the routine of a group raises, in sequential and in concurrent
\* mode (the global timeout aside), the call still ends by returning a report
\* with one outcome per group, false for the group that raised, and every
\* other group was executed.
C19_RaiseBecomesFailure ==
    (/\ MixedEnded
     /\ ~mixed.timed
     /\ \E l \in GroupLangs(mixed) : lanes[l].pc = "raised")
    => /\ mixed.pc = "returned"
       /\ Len(mixed.results) = Len(mixed.groups)
       /\ \A l \in GroupLangs(mixed) :
             /\ lanes[l].pc \in {"done", "raised"}
             /\ \E j \in DOMAIN mixed.results :
                   /\ mixed.results[j].lang = l
                   /\ lanes[l].pc = "raised" => ~mixed.results[j].ok

\* C20: once the global timeout of the concurrent dispatcher has elapsed with
\* lanes unfinished, the dispatcher goes on to its report without waiting for
\* them, and returns false with a failed outcome for each of them.
C20_TimeoutReported ==
    mixed.timed
    => /\ mixed.pc \in {"report", "returned"}
       /\ mixed.pc = "returned" =>
             /\ ~mixed.ret
             /\ \A l \in mixed.late : \E j \in DOMAIN mixed.results :
                   mixed.results[j].lang = l /\ ~mixed.results[j].ok

(***************************************************************************)
(* Claims checked under SpecCache                                          *)
(***************************************************************************)
\* The files of a recorded key whose contents differ from what the recording saw
Changed(k) == {f \in DOMAIN lastRec[k].snap : content[f] # lastRec[k].snap[f]}

\* C1 as stated: after _update_cache recorded (F, A), _is_cached(F, name of A)
\* is true in every later state in which no file of F changed and A exists, false
\* once a single file of F has changed, and false once A is deleted.
C1_AsStated ==
    \A k \in DOMAIN lastRec :
        /\ (Changed(k) = {} /\ PathExists(lastRec[k].exe)) => _is_cached(k.paths, k.name)
        /\ Cardinality(Changed(k)) = 1 => ~_is_cached(k.paths, k.name)
        /\ ~PathExists(lastRec[k].exe) => ~_is_cached(k.paths, k.name)

\* C1 amended: the same, in every later state in which clear_cache has not been
\* called since the recording.  (A change of one file, or any change when every
\* file of F existed at the recording, makes it false; so does deleting A.)
C1_ValidUntilChangedOrCleared ==
    \A k \in DOMAIN lastRec :
        /\ (~lastRec[k].cleared /\ Changed(k) = {} /\ PathExists(lastRec[k].exe))
               => _is_cached(k.paths, k.name)
        /\ Cardinality(Changed(k)) = 1 => ~_is_cached(k.paths, k.name)
        /\ (Changed(k) # {} /\ \A f \in DOMAIN lastRec[k].snap : lastRec[k].snap[f] # Missing)
               => ~_is_cached(k.paths, k.name)
        /\ ~PathExists(lastRec[k].exe) => ~_is_cached(k.paths, k.name)

\* C1 witness: a recorded key, not cleared, whose artifact exists and one of
\* whose files has changed since: _is_cached answers false.
C1_Witness ==
    \E k \in DOMAIN lastRec :
        /\ ~lastRec[k].cleared
        /\ PathExists(lastRec[k].exe)
        /\ Cardinality(Changed(k)) = 1
        /\ ~_is_cached(k.paths, k.name)

\* C8: _is_cached(F, name) is false when the index has no record for the key
\* (name, sorted F), false when the recorded artifact path does not exist, false
\* when the digest over the current contents of F differs from the stored one,
\* and true in every other case.
C8_IsCachedCases ==
    call.op = "is_cached" =>
        LET k == [name |-> call.name, paths |-> sorted(call.files)]
            recs == {i \in DOMAIN cache_index : cache_index[i].key = k}
        IN  /\ recs = {} => call.ret = FALSE
            /\ \A i \in recs :
                  /\ cache_index[i].exe_path \notin DOMAIN artifacts => call.ret = FALSE
                  /\ cache_index[i].hash # Sha256(HashUpdates(sorted(call.files)))
                         => call.ret = FALSE
                  /\ (/\ cache_index[i].exe_path \in DOMAIN artifacts
                      /\ cache_index[i].hash = Sha256(HashUpdates(sorted(call.files))))
                         => call.ret = TRUE

\* C8 witness: a call of _is_cached that answered true.
C8_Witness == call.op = "is_cached" /\ call.ret = TRUE

\* C9: a recording for one key leaves the record and the _is_cached answer of
\* every other key as they were; two keys are the same only when both the
\* artifact name and the sorted input paths are.
C9_KeyIndependence ==
    [][(calls' # calls /\ call'.op = "update_cache") =>
        \A F \in FileLists(CacheFiles), n \in ExeNames :
            /\ CacheKey(n, F) # call'.key =>
                  /\ HasKey(cache_index', CacheKey(n, F)) = HasKey(cache_index, CacheKey(n, F))
                  /\ HasKey(cache_index, CacheKey(n, F)) =>
                        Get(cache_index', CacheKey(n, F)) = Get(cache_index, CacheKey(n, F))
                  /\ _is_cached(F, n)' = _is_cached(F, n)
            /\ (CacheKey(n, F) = call'.key) <=>
                  (n = call'.exe.name /\ Range(F) = Range(call'.files))]_vars

\* C9 witness: a recording was made while the index held another key, with the
\* same input files under the other name, that is still there.
C9_Witness ==
    /\ call.op = "update_cache"
    /\ \E i \in DOMAIN cache_index :
          /\ cache_index[i].key.paths = call.key.paths
          /\ cache_index[i].key.name # call.key.name

\* C10: a second _update_cache with the same input files, unchanged, and the same
\* artifact leaves exactly one record for the key, as many entries as before,
\* _is_cached true (the artifact being there) and index.json parseable, holding
\* the index.
C10_RecordIdempotent ==
    (call.op = "update_cache" /\ call.again) =>
        /\ Cardinality({i \in DOMAIN cache_index : cache_index[i].key = call.key}) = 1
        /\ Len(cache_index) = call.n_before
        /\ PathExists(call.exe) => _is_cached(call.files, call.exe.name)
        /\ disk.exists
        /\ Parseable(disk.data)
        /\ _load_cache_index(disk) = cache_index

\* C10 witness: the second of two identical recordings, the artifact in place.
C10_Witness == call.op = "update_cache" /\ call.again /\ PathExists(call.exe)

\* The lists that hold the files of F in any order
Perms(F) == {G \in FileLists(CacheFiles) : Len(G) = Len(F) /\ Range(G) = Range(F)}

\* C11: for every list of input files and every permutation of it,
\* _compute_files_hash gives the same digest and the cache key is the same,
\* whatever the files hold.
C11_OrderInvariant ==
    \A F \in FileLists(CacheFiles) : \A G \in Perms(F) :
        /\ _compute_files_hash(F) = _compute_files_hash(G)
        /\ \A n \in ExeNames : CacheKey(n, F) = CacheKey(n, G)

\* C11 witness: two files of different contents were recorded in one order and
\* _is_cached, asked with the other order, answered true.
C11_Witness ==
    /\ call.op = "is_cached"
    /\ call.files = <<2, 1>>
    /\ call.ret
    /\ CacheKey(call.name, <<1, 2>>) \in DOMAIN lastRec
    /\ FileExists(1) /\ FileExists(2)
    /\ content[1] # content[2]

\* C12 as stated: for files a and b of distinct content the digests of [a] and
\* of [a, b] differ in every state of the file system, a missing file included.
C12_AsStated ==
    \A a \in CacheFiles, b \in CacheFiles :
        (a # b /\ content[a] # content[b])
            => _compute_files_hash(<<a>>) # _compute_files_hash(<<a, b>>)

\* C12 amended: the digests of [a] and of [a, b] differ in every state in which
\* a and b both exist; a missing file is skipped, so that with b missing the
\* digest of [a, b] is the digest of [a].
C12_NoCollisionWhenPresent ==
    \A a \in CacheFiles, b \in CacheFiles :
        /\ (a # b /\ FileExists(a) /\ FileExists(b))
              => /\ _compute_files_hash(<<a>>) # _compute_files_hash(<<a, b>>)
                 /\ _compute_files_hash(<<a>>) # _compute_files_hash(<<b, a>>)
        /\ (a # b /\ ~FileExists(b))
              => _compute_files_hash(<<a>>) = _compute_files_hash(<<a, b>>)

\* C12 witness: [a, b] was recorded with both files there and of different
\* contents, and its digest is not the digest of [a].
C12_Witness ==
    /\ call.op = "update_cache"
    /\ call.files = <<1, 2>>
    /\ FileExists(1) /\ FileExists(2)
    /\ content[1] # content[2]
    /\ HasKey(cache_index, call.key)
    /\ Get(cache_index, call.key).hash # _compute_files_hash(<<1>>)

(***************************************************************************)
(* Claims checked under SpecRun                                            *)
(***************************************************************************)
\* C15: whatever subprocess.run does with the command, _run_command returns a
\* triple (exit code, stdout, stderr): the process's own code and output when
\* it exited, a non-zero code with the timeout message on a timeout, and a
\* non-zero code with the error text in the stderr position on any other
\* failure to run it.
C15_AlwaysTriple ==
    call.op = "run_command" =>
        /\ Len(call.ret) = 3
        /\ call.out.kind = "exit" => call.ret = <<call.out.code, "stdout", "stderr">>
        /\ call.out.kind = "TimeoutExpired" =>
              /\ call.ret[1] # 0
              /\ call.ret[2] = ""
              /\ call.ret[3] = TimeoutMessage
        /\ call.out.kind = "Exception" =>
              /\ call.ret[1] # 0
              /\ call.ret[2] = ""
              /\ call.ret[3] = ErrorPrefix \o call.out.text

\* C15 witness: a command timed out and _run_command returned the timeout triple.
C15_Witness ==
    /\ call.op = "run_command"
    /\ call.out.kind = "TimeoutExpired"
    /\ call.ret = <<1, "", TimeoutMessage>>

\* C17: after clear_cache has returned, with the cache enabled, the index in
\* memory is empty, the cache directory is there with no index file holding
\* records, and _is_cached is false for every key.
C17_ClearEmpties ==
    (call.op = "clear_cache" /\ cache_enabled)
    => /\ cache_index = <<>>
       /\ disk.dir
       /\ _load_cache_index(disk) = <<>>
       /\ \A F \in FileLists(CacheFiles), n \in ExeNames : ~_is_cached(F, n)

(***************************************************************************)
(* Claims checked under SpecLoad                                           *)
(***************************************************************************)
\* C18: whatever index.json held when the builder started (nothing, a text cut
\* short, JSON that is not an object), the first build request misses, every
\* build that compiles records its result, and no build routine is left by an
\* exception.
C18_CorruptIsEmpty ==
    \A l \in Langs :
        /\ lanes[l].pc # "raised"
        /\ (calls = 1 /\ lanes[l].pc = "run_cached") => FALSE
        /\ (Caches(l) /\ lanes[l].pc \in {"run", "done"} /\ HasCmd(lanes[l], "compile", 0))
              => HasKey(cache_index, CacheKey(lanes[l].exe_path.name, lanes[l].files))

(***************************************************************************)
(* Claims checked under SpecShared                                         *)
(***************************************************************************)
\* C21: when two builders on one cache directory record distinct keys one
\* after the other, the index persisted afterwards holds both records,
\* whichever builder loaded its index first.
C21_BothPersisted ==
    (/\ call.op = "record"
     /\ call.before # <<>>
     /\ call.before[1].builder # call.builder
     /\ call.before[1].key # call.key)
        => {call.key, call.before[1].key} \subseteq Keys(_load_cache_index(disk))

(***************************************************************************)
(* Further claims checked under SpecMixed                                  *)
(***************************************************************************)
\* The files of the call that belong to toolchain l
FilesOf(l) == {f \in Range(mixed.input) : EXTENSION_MAP(Lower(Suffix(f))) = l}

\* C22: a missing source file aborts only the lane of its toolchain: in a call
\* that has returned, every other toolchain whose files all exist has been
\* built, run and reported.
C22_MissingAbortsOnlyItsLane ==
    (/\ mixed.pc = "returned"
     /\ \E f \in Range(mixed.input) : ~FileExists(f))
        => \A l \in Langs :
              (FilesOf(l) # {} /\ \A f \in FilesOf(l) : FileExists(f))
                 => /\ \E i \in DOMAIN mixed.results : mixed.results[i].lang = l
                    /\ lanes[l].pc = "done"

\* C24: sequential and concurrent execution are equivalent in outcome: both
\* enter the same routine with the same arguments for each group, and a call
\* that has ended, in either mode, has returned the report that maps every
\* group to what its routine gave for the commands its lane ran, with the AND
\* of these as the overall result.
C24_ModesAgree ==
    (MixedEnded /\ Len(mixed.groups) >= 1)
    => /\ \A i \in DOMAIN mixed.groups : SeqArgs(mixed.groups[i]) = ParArgs(mixed.groups[i])
       /\ mixed.pc = "returned"
       /\ \A i \in DOMAIN mixed.groups :
             LET g == mixed.groups[i]
             IN  /\ lanes[g.lang].files = SeqArgs(g).files
                 /\ \E j \in DOMAIN mixed.results :
                       mixed.results[j] = [lang |-> g.lang, ok |-> FutureOutcome(lanes[g.lang])]
       /\ mixed.ret = \A l \in GroupLangs(mixed) : FutureOutcome(lanes[l])

\* C25: mode selection: once the files are grouped, the call runs concurrently
\* exactly when more than one group is present and concurrency is enabled (the
\* parallel argument when given, otherwise the builder's parallel_enabled); in
\* sequential mode no task is ever queued and at most one routine is under
\* way, and a single group runs sequentially whatever the flag is.
C25_ModeSelection ==
    mixed.grouped
    => LET enabled == \/ mixed.parallel = <<TRUE>>
                      \/ (mixed.parallel = <<>> /\ mixed.parallel_enabled)
       IN  /\ mixed.mode = "parallel" <=> (Len(mixed.groups) > 1 /\ enabled)
           /\ mixed.mode = "sequential" <=> ~(Len(mixed.groups) > 1 /\ enabled)
           /\ Len(mixed.groups) = 1 => mixed.mode = "sequential"
           /\ mixed.mode = "sequential"
                 => /\ mixed.pc \notin {"joining", "timed_out"}
                    /\ \A l \in Langs : lanes[l].pc # "queued"
                    /\ Cardinality(Unfinished) <= 1
           /\ mixed.mode = "parallel"
                 => /\ mixed.pc # "sequential"
                    /\ \A l \in GroupLangs(mixed) : lanes[l].pc # "idle"

\* C25 witness: a call with parallel=True on a builder made with
\* parallel_enabled=False ran its two groups concurrently and returned
C25_Witness ==
    /\ mixed.pc = "returned"
    /\ mixed.grouped
    /\ mixed.parallel = <<TRUE>>
    /\ ~mixed.parallel_enabled
    /\ Len(mixed.groups) = 2
    /\ mixed.mode = "parallel"
    /\ Len(mixed.results) = 2

\* The toolchain of a file by its extension (None: not recognized)
LangOf(f) == EXTENSION_MAP(Lower(Suffix(f)))

\* The files of toolchain lang in the order of the sequence
InOrder(file_paths, lang) ==
    LET Test(f) == LangOf(f) = lang
    IN  SelectSeq(file_paths, Test)

\* C27: grouping partitions the requested files by toolchain: every file with
\* a recognized extension is in exactly one group, that of its extension's
\* toolchain, each group holding its files in input order; a file with an
\* unrecognized extension is in no group, and a call with such a file that has
\* returned has entered the routine of every group of the other files, which
\* has ended, and has reported the group.
C27_GroupingPartitions ==
    mixed.grouped
    => /\ \A i, j \in DOMAIN mixed.groups :
             mixed.groups[i].lang = mixed.groups[j].lang => i = j
       /\ \A i \in DOMAIN mixed.groups :
             /\ mixed.groups[i].lang \in Langs
             /\ mixed.groups[i].files # <<>>
             /\ mixed.groups[i].files = InOrder(mixed.input, mixed.groups[i].lang)
       /\ \A f \in Range(mixed.input) :
             LET holds == {i \in DOMAIN mixed.groups : f \in Range(mixed.groups[i].files)}
             IN  IF LangOf(f) = None THEN holds = {}
                 ELSE /\ Cardinality(holds) = 1
                      /\ \A i \in holds : mixed.groups[i].lang = LangOf(f)
       /\ (mixed.pc = "returned" /\ \E f \in Range(mixed.input) : LangOf(f) = None)
             => \A i \in DOMAIN mixed.groups :
                   /\ lanes[mixed.groups[i].lang].pc \in {"done", "raised"}
                   /\ lanes[mixed.groups[i].lang].files = LaneFiles(mixed.groups[i])
                   /\ \E j \in DOMAIN mixed.results :
                         mixed.results[j].lang = mixed.groups[i].lang

\* C27 witness: the call on /d1/a.CPP, /d2/g.txt, /d2/e.py has returned with
\* the C++ and the Python group built and reported, g.txt in neither
C27_Witness ==
    /\ mixed.pc = "returned"
    /\ mixed.input = <<1, 6, 5>>
    /\ mixed.groups = <<[lang |-> "cpp", files |-> <<1>>], [lang |-> "python", files |-> <<5>>]>>
    /\ Len(mixed.results) = 2
    /\ mixed.ret

(***************************************************************************)
(* Claims checked under SpecLive                                           *)
(***************************************************************************)
\* C30: every build_and_run_mixed call eventually reaches its reported state:
\* every submitted lane eventually completes, and the call eventually returns
\* with its report.
C30_EventuallyReported ==
    /\ \A l \in Langs : (lanes[l].pc = "queued") ~> (lanes[l].pc \in {"done", "raised"})
    /\ (mixed.pc = "entered") ~> (mixed.pc = "returned")

\* C33: when grouping yields no group (the input list is empty, or every file
\* has an unrecognized extension), build_and_run_mixed enters no routine,
\* takes the sequential path whatever the concurrency flag is, and returns
\* true with an empty report.
C33_NoGroups ==
    (/\ mixed.pc \notin {"idle", "entered"}
     /\ \A f \in Range(mixed.input) : LangOf(f) = None /\ FileExists(f))
    => /\ mixed.grouped
       /\ mixed.groups = <<>>
       /\ mixed.mode = "sequential"
       /\ mixed.pc \in {"sequential", "report", "returned"}
       /\ \A l \in Langs : lanes[l] = IdleLane
       /\ mixed.results = <<>>
       /\ mixed.pc = "returned" => mixed.ret

\* C33 witness: a call with the empty list and parallel=True has returned true
\* with an empty report
C33_Witness ==
    /\ mixed.pc = "returned"
    /\ mixed.input = <<>>
    /\ mixed.parallel = <<TRUE>>
    /\ mixed.results = <<>>
    /\ mixed.ret

(***************************************************************************)
(* Claims checked under SpecFault                                          *)
(***************************************************************************)
\* C23: a failed cache write never fails the build: when a step of persisting
\* the index fails (making the cache directory, opening or writing index.json)
\* after a successful compile, no exception leaves the routine, and the routine
\* returns the outcome of the run of the compiled artifact.
C23_FailedWriteHarmless ==
    \A l \in Langs :
        (host.fault # "none" /\ HasCmd(lanes[l], "compile", 0))
            => /\ lanes[l].pc # "raised"
               /\ lanes[l].pc = "done"
                     => /\ HasRun(lanes[l], "run")
                        /\ lanes[l].ret = HasCmd(lanes[l], "run", 0)

(***************************************************************************)
(* Claims checked under SpecRebuild                                        *)
(***************************************************************************)
\* C32: after any sequence of builds through the build routines alone, a cache
\* hit for a key (name, F) executes an artifact that was last compiled from F:
\* a build of another key (name, F') that wrote the same artifact path in
\* between does not let the build of (name, F) hit and run what was compiled
\* from F'.
C32_HitRunsOwnBuild ==
    \A l \in Langs :
        lanes[l].pc = "run_cached"
           => /\ lanes[l].exe_path \in DOMAIN artifacts
              /\ artifacts[lanes[l].exe_path].src = lanes[l].files

====
